---- MODULE Spec2Model ----
(***************************************************************************)
(* TSA-CMS: the page synchronisation and commit protocol of the editor     *)
(* (src/app/editor/page.tsx over lib/github.ts) and the media replacement  *)
(* protocol of the upload route (src/app/api/upload/route.ts) with its     *)
(* two callers in the editor.                                              *)
(*                                                                         *)
(* Every `await` of the source is one step of the model: the request is    *)
(* served by the store and the continuation of the handler runs in the     *)
(* same step.  Between two such steps any other handler, session or user   *)
(* event may run, as in the browser's event loop.                          *)
(***************************************************************************)
EXTENDS Integers, Sequences, FiniteSets, Bags, TLC

VARIABLES
  store,               \* GitHub contents of the page files: branch -> path -> [content, rev]
  pages,               \* useState pages              (page.tsx:44), per session
  currentPage,         \* useState currentPage        (page.tsx:45)
  isLoading,           \* useState isLoading          (page.tsx:46)
  isSaving,            \* useState isSaving           (page.tsx:47)
  error,               \* useState error              (page.tsx:48)
  showUnsavedWarning,  \* useState showUnsavedWarning (page.tsx:50)
  pendingNavigation,   \* useState pendingNavigation  (page.tsx:51)
  tasks,               \* the async handler invocations in flight, per session
  events,              \* the user events handled so far
  unsaved,             \* history: the in-memory content holds edits no commit has confirmed
  stale,               \* history: paths another session committed since this session last read them
  saveOutcome,         \* history: how the latest step of a handleSave call ended
  heldSha,             \* history: the sha the store last answered for the open page (open, commit)
  listing,             \* GitHub contents of the repository root: the entries in API order
  gitHubConfig,        \* useState gitHubConfig / localStorage 'github-config' (page.tsx:52)
  showConfigModal,     \* useState showConfigModal   (page.tsx:49)
  discovery,           \* history: how the listing request of discoverPages ended
  media,               \* GitHub contents under images/ and pdfs/: asset path -> file stored there
  clock,               \* Date.now() of the upload route
  officerImage,        \* officers[index].image of the page being edited
  documentUrl,         \* documents[index].url of the page being edited
  upload,              \* the POST /api/upload request in flight, per uploading editor
  remove,              \* the DELETE /api/upload request in flight, per editor
  committedAssets,     \* the image and the document that the page content the store holds references
  configPage,          \* the page the JSON visual editor shows: currentPage with its JSON text
  data                 \* useState data of JSONVisualEditor (page.tsx:266)

syncVars  == <<store, pages, currentPage, isLoading, isSaving, error,
               showUnsavedWarning, pendingNavigation, tasks, events,
               unsaved, stale, saveOutcome, heldSha>>
setupVars == <<listing, gitHubConfig, showConfigModal, discovery>>
mediaVars == <<media, clock, officerImage, documentUrl, upload, remove, committedAssets>>
vars      == <<syncVars, setupVars, mediaVars, configPage, data>>

(***************************************************************************)
(* Bounds                                                                  *)
(***************************************************************************)
NumContents == 2     \* distinct page contents
MaxRev      == 2     \* successful writes per path
MaxTasks    == 2     \* handler invocations in flight per session
MaxEvents   == 4     \* user events (clicks, edits) over all sessions, first opens aside
MaxListing  == 3     \* entries of a repository root that discovery is tried on
MaxLinks    == 2     \* quick links of the settings page

Sessions == {"A", "B"}
Paths    == {"about.json", "index.json"}
Contents == 1..NumContents

(***************************************************************************)
(* Editor state                                                            *)
(***************************************************************************)
NoPath    == ""
NoError   == ""
NoSha     == -1
NoContent == 0

\* currentPage = null
NoPage == [path |-> NoPath, content |-> NoContent, isDirty |-> FALSE]

EditorPage(p, c, d) == [path |-> p, content |-> c, isDirty |-> d]

IdleTask == [kind |-> "idle", pc |-> "done", path |-> NoPath, content |-> NoContent,
             nav |-> NoPath, sha |-> NoSha, origin |-> "none"]

\* how the listing request of discovery ends
Failures == {"401", "Network Error"}
Outcomes == {"ok"} \cup Failures
\* the message of a read or a write that throws: each handler has one catch
\* for every failure and shows its message, the store's 401 among them
RequestFailures == {"401"}

(***************************************************************************)
(* discoverPages (lib/utils.ts, both versions) over listFilesInRepo        *)
(***************************************************************************)
\* what a repository root may hold
RootEntries ==
  { [name |-> "about.json",   type |-> "file"],
    [name |-> "index.json",   type |-> "file"],
    [name |-> "Contact.json", type |-> "file"],
    [name |-> "index.html",   type |-> "file"],
    [name |-> "README.md",    type |-> "file"],
    [name |-> "archive.json", type |-> "dir"],
    [name |-> "images",       type |-> "dir"] }

\* the root of the repository the sessions edit, in the order the API lists it
RootListing ==
  << [name |-> "README.md",  type |-> "file"],
     [name |-> "about.json", type |-> "file"],
     [name |-> "images",     type |-> "dir"],
     [name |-> "index.html", type |-> "file"],
     [name |-> "index.json", type |-> "file"] >>

Suffix(n) == CASE n \in {"about.json", "index.json", "Contact.json", "archive.json"} -> ".json"
               [] n = "index.html" -> ".html"
               [] n = "README.md"  -> ".md"
               [] OTHER -> ""

EndsWithJson(n) == Suffix(n) = ".json"
EndsWithHtml(n) == Suffix(n) = ".html"

\* String.prototype.localeCompare on these names: collation order, in which
\* case differences rank after letter differences
CollationOrder ==
  <<"about.json", "archive.json", "Contact.json", "images", "index.html", "index.json",
    "README.md">>

CollationRank(n) == CHOOSE i \in 1..Len(CollationOrder) : CollationOrder[i] = n

localeCompare(a, b) == CollationRank(a) - CollationRank(b)

\* a filter that forgets the entry type
IsPageFileOfAnyType(f) == EndsWithJson(f.name) \/ EndsWithHtml(f.name)

\* .filter(f => f.type === 'file').filter(f => endsWith('.json') || endsWith('.html'))
IsPageFile(f) == f.type = "file" /\ (EndsWithJson(f.name) \/ EndsWithHtml(f.name))

\* .map(f => ({ name, path, type })): at the root the path is the name
ToPage(f) == [name |-> f.name, path |-> f.name,
              type |-> IF EndsWithJson(f.name) THEN "json" ELSE "html"]

RECURSIVE MapToPages(_)
MapToPages(files) ==
  IF files = << >> THEN << >> ELSE <<ToPage(Head(files))>> \o MapToPages(Tail(files))

RECURSIVE InsertByName(_, _)
InsertByName(pg, sorted) ==
  IF sorted = << >> THEN <<pg>>
  ELSE IF localeCompare(pg.name, Head(sorted).name) < 0 THEN <<pg>> \o sorted
  ELSE <<Head(sorted)>> \o InsertByName(pg, Tail(sorted))

\* .sort((a, b) => a.name.localeCompare(b.name))
RECURSIVE SortByName(_)
SortByName(pgs) ==
  IF pgs = << >> THEN << >> ELSE InsertByName(Head(pgs), SortByName(Tail(pgs)))

\* a discoverPages whose catch block hands on what it has
discoverPagesIgnoresFailure(outcome, files) ==
  SortByName(MapToPages(SelectSeq(files, IsPageFile)))

\* discoverPages: the listing request ends with outcome; files is what the
\* root holds; every failure is caught and answered with []
discoverPages(outcome, files) ==
  IF outcome = "ok" THEN SortByName(MapToPages(SelectSeq(files, IsPageFile)))
  ELSE << >>

IsJsonPage(pg) == pg.type = "json"

\* discoveredPages.filter(p => p.type === 'json'), page.tsx:77
jsonPages(discovered) == SelectSeq(discovered, IsJsonPage)

\* the paths the sidebar offers
Listed(s) == { pages[s][i].path : i \in 1..Len(pages[s]) }

InFlight(s) == BagToSet(tasks[s])
HasFree(s)  == BagCardinality(tasks[s]) < MaxTasks
MoreEvents  == events < MaxEvents

Started(s, t)     == [tasks EXCEPT ![s] = @ (+) SetToBag({t})]
Finished(s, t)    == [tasks EXCEPT ![s] = @ (-) SetToBag({t})]
Advanced(s, t, u) == [tasks EXCEPT ![s] = (@ (-) SetToBag({t})) (+) SetToBag({u})]

(***************************************************************************)
(* Repository store (GitHub contents API) as lib/github.ts uses it         *)
(***************************************************************************)
Branches == {"main", "dev"}

\* the branch the repository serves when a request names none
DefaultBranch == "main"

\* Buffer.from(content).toString('base64'): what the API carries and stores
ToBase64(c) == [base64 |-> c]

\* Buffer.from(data.content, 'base64').toString('utf-8')
FromBase64(x) == x.base64

\* every branch starts from the same commit
InitialStore == [b \in Branches |-> [p \in Paths |-> [content |-> ToBase64(1), rev |-> 0]]]

\* getFileContent: GET /contents/path carries no ref, the default branch answers
getFileContent(p) == FromBase64(store[DefaultBranch][p].content)

\* commitFile lines 66-69: the same GET, for response.data.sha
getSha(p) == store[DefaultBranch][p].rev

\* a store that takes any sha for the current one
PutAcceptedWithAnySha(b, p, sha) == sha # NoSha

\* PUT /contents/path with payload.branch and payload.sha: accepted iff the
\* sha is the current one of the path on that branch
PutAccepted(b, p, sha) == sha # NoSha /\ sha = store[b][p].rev

\* what axios reports for a PUT the store refuses
PutRefusal(p, sha) == IF sha = NoSha THEN "422" ELSE "409"

StoreAfterPut(b, p, c) ==
  [store EXCEPT ![b][p] = [content |-> ToBase64(c), rev |-> store[b][p].rev + 1]]

NoConfig == ""

\* every session starts with the configuration an earlier visit left in
\* localStorage
Configured ==
  /\ gitHubConfig = [s \in Sessions |-> DefaultBranch]
  /\ showConfigModal = [s \in Sessions |-> FALSE]
  /\ discovery = [s \in Sessions |-> "none"]

SyncInit ==
  /\ store = InitialStore
  /\ listing = RootListing
  /\ Configured
  /\ pages = [s \in Sessions |-> << >>]
  /\ currentPage = [s \in Sessions |-> NoPage]
  /\ isLoading = [s \in Sessions |-> TRUE]
  /\ isSaving = [s \in Sessions |-> FALSE]
  /\ error = [s \in Sessions |-> NoError]
  /\ showUnsavedWarning = [s \in Sessions |-> FALSE]
  /\ pendingNavigation = [s \in Sessions |-> NoPath]
  /\ tasks = [s \in Sessions |->
                SetToBag({[IdleTask EXCEPT !.kind = "init", !.pc = "discover"]})]
  /\ events = 0
  /\ unsaved = [s \in Sessions |-> FALSE]
  /\ stale = [s \in Sessions |-> {}]
  /\ saveOutcome = [s \in Sessions |-> "none"]
  /\ heldSha = [s \in Sessions |-> NoSha]

(***************************************************************************)
(* Rendering guards                                                        *)
(***************************************************************************)
\* the editor is rendered, not the full-screen spinner (page.tsx:175)
UiShown(s) == ~(isLoading[s] /\ pages[s] = << >>)

\* the sidebar lists the pages as buttons (Sidebar.tsx:30); the modal covers it
SidebarEnabled(s) == UiShown(s) /\ ~isLoading[s] /\ ~showUnsavedWarning[s]

\* the top bar's save button (Sidebar.tsx:116-118); the modal covers it
SaveButtonEnabled(s) ==
  UiShown(s) /\ currentPage[s].isDirty /\ ~isSaving[s] /\ ~showUnsavedWarning[s]

\* a page editor is mounted (page.tsx:229-236)
EditorShown(s) == UiShown(s) /\ currentPage[s] # NoPage

\* a step of a session leaves the setup and the media alone
OtherFrame == UNCHANGED <<setupVars, mediaVars, configPage, data>>

\* and, but for a read of a page or an accepted write, the sha last answered
SyncFrame == UNCHANGED heldSha /\ OtherFrame

(***************************************************************************)
(* initializeApp (page.tsx:61-95)                                          *)
(***************************************************************************)
\* the listing request of discoverPages returns or fails; discoverPages never
\* throws, so the catch block of initializeApp is not reached from here
InitializeApp(s, outcome) ==
  LET t == [IdleTask EXCEPT !.kind = "init", !.pc = "discover"] IN
  /\ t \in InFlight(s)
  /\ pages' = [pages EXCEPT ![s] = jsonPages(discoverPages(outcome, listing))]
  /\ error' = [error EXCEPT ![s] = NoError]
  /\ isLoading' = [isLoading EXCEPT ![s] = FALSE]
  /\ tasks' = Finished(s, t)
  /\ discovery' = [discovery EXCEPT ![s] = outcome]
  /\ UNCHANGED <<store, currentPage, isSaving, showUnsavedWarning,
                 pendingNavigation, events, unsaved, stale, saveOutcome, heldSha>>
  /\ UNCHANGED <<listing, gitHubConfig, showConfigModal, mediaVars, configPage, data>>

(***************************************************************************)
(* ConfigModal (page.tsx:195, 694-718) and handleConfigSubmit (164-173)    *)
(***************************************************************************)
\* handleConfigSubmit: initializeGitHub(config), the config is stored and set,
\* the prompt closes; the effect on gitHubConfig then starts initializeApp
handleConfigSubmit(s, b) ==
  /\ UiShown(s) /\ showConfigModal[s] /\ MoreEvents /\ HasFree(s)
  /\ gitHubConfig' = [gitHubConfig EXCEPT ![s] = b]
  /\ showConfigModal' = [showConfigModal EXCEPT ![s] = FALSE]
  /\ isLoading' = [isLoading EXCEPT ![s] = TRUE]
  /\ tasks' = Started(s, [IdleTask EXCEPT !.kind = "init", !.pc = "discover"])
  /\ events' = events + 1
  /\ UNCHANGED <<store, pages, currentPage, isSaving, error, showUnsavedWarning,
                 pendingNavigation, unsaved, stale, saveOutcome, heldSha>>
  /\ UNCHANGED <<listing, discovery, mediaVars, configPage, data>>

\* ConfigModal onClose
onCloseConfig(s) ==
  /\ UiShown(s) /\ showConfigModal[s] /\ MoreEvents
  /\ showConfigModal' = [showConfigModal EXCEPT ![s] = FALSE]
  /\ events' = events + 1
  /\ UNCHANGED <<store, pages, currentPage, isLoading, isSaving, error, showUnsavedWarning,
                 pendingNavigation, tasks, unsaved, stale, saveOutcome, heldSha>>
  /\ UNCHANGED <<listing, gitHubConfig, discovery, mediaVars, configPage, data>>

(***************************************************************************)
(* loadPage (page.tsx:97-114)                                              *)
(***************************************************************************)
\* the synchronous prefix of loadPage: setIsLoading(true), the GET is sent
LoadTask(p, o) == [IdleTask EXCEPT !.kind = "load", !.pc = "get", !.path = p, !.origin = o]

\* the GET of getFileContent returns content: the try block of loadPage
LoadPageOk(s, t) ==
  /\ t \in InFlight(s)
  /\ t.kind = "load" /\ t.pc = "get"
  /\ currentPage' = [currentPage EXCEPT ![s] = EditorPage(t.path, getFileContent(t.path), FALSE)]
  /\ error' = [error EXCEPT ![s] = NoError]
  /\ showUnsavedWarning' = [showUnsavedWarning EXCEPT ![s] = FALSE]
  /\ pendingNavigation' = [pendingNavigation EXCEPT ![s] = NoPath]
  /\ isLoading' = [isLoading EXCEPT ![s] = FALSE]
  /\ tasks' = Finished(s, t)
  /\ unsaved' = [unsaved EXCEPT ![s] = FALSE]
  /\ stale' = [stale EXCEPT ![s] = @ \ {t.path}]
  /\ heldSha' = [heldSha EXCEPT ![s] = getSha(t.path)]
  /\ UNCHANGED <<store, pages, isSaving, events, saveOutcome>>
  /\ OtherFrame

\* a catch block that also closes the page
LoadPageFailClosesPage(s, t, k) ==
  /\ t \in InFlight(s)
  /\ t.kind = "load" /\ t.pc = "get"
  /\ error' = [error EXCEPT ![s] = "Failed to load page: " \o k]
  /\ currentPage' = [currentPage EXCEPT ![s] = NoPage]
  /\ isLoading' = [isLoading EXCEPT ![s] = FALSE]
  /\ tasks' = Finished(s, t)
  /\ UNCHANGED <<store, pages, isSaving, showUnsavedWarning,
                 pendingNavigation, events, unsaved, stale, saveOutcome>>
  /\ SyncFrame

\* the GET fails: the catch block of loadPage
LoadPageFail(s, t, k) ==
  /\ t \in InFlight(s)
  /\ t.kind = "load" /\ t.pc = "get"
  /\ error' = [error EXCEPT ![s] = "Failed to load page: " \o k]
  /\ isLoading' = [isLoading EXCEPT ![s] = FALSE]
  /\ tasks' = Finished(s, t)
  /\ UNCHANGED <<store, pages, currentPage, isSaving, showUnsavedWarning,
                 pendingNavigation, events, unsaved, stale, saveOutcome>>
  /\ SyncFrame

(***************************************************************************)
(* handleSelectPage (page.tsx:116-123)                                     *)
(***************************************************************************)
handleSelectPage(s, p) ==
  /\ SidebarEnabled(s)
  /\ MoreEvents \/ currentPage[s] = NoPage
  /\ p \in Listed(s)
  /\ IF currentPage[s].isDirty
       THEN /\ pendingNavigation' = [pendingNavigation EXCEPT ![s] = p]
            /\ showUnsavedWarning' = [showUnsavedWarning EXCEPT ![s] = TRUE]
            /\ UNCHANGED <<isLoading, tasks>>
       ELSE /\ HasFree(s)
            /\ isLoading' = [isLoading EXCEPT ![s] = TRUE]
            /\ tasks' = Started(s, LoadTask(p, "select"))
            /\ UNCHANGED <<pendingNavigation, showUnsavedWarning>>
  /\ events' = IF currentPage[s] = NoPage THEN events ELSE events + 1
  /\ UNCHANGED <<store, pages, currentPage, isSaving, error, unsaved, stale, saveOutcome>>
  /\ SyncFrame

(***************************************************************************)
(* handleContentChange (page.tsx:125-133)                                  *)
(***************************************************************************)
\* an update that takes the content and leaves the flag
EditedKeepsFlag(pg, c) == [pg EXCEPT !.content = c]

\* { ...currentPage, content: newContent, isDirty: true }, lines 127-131
Edited(pg, c) == [pg EXCEPT !.content = c, !.isDirty = TRUE]

\* the handler: without a page it does nothing (line 126)
handleContentChange(s, c) ==
  /\ MoreEvents
  /\ IF currentPage[s] # NoPage
       THEN /\ c # currentPage[s].content
            /\ currentPage' = [currentPage EXCEPT ![s] = Edited(@, c)]
            /\ unsaved' = [unsaved EXCEPT ![s] = TRUE]
       ELSE UNCHANGED <<currentPage, unsaved>>
  /\ events' = events + 1
  /\ UNCHANGED <<store, pages, isLoading, isSaving, error, showUnsavedWarning,
                 pendingNavigation, tasks, stale, saveOutcome>>
  /\ SyncFrame

\* the mounted page editor calls onChange={handleContentChange}, lines 242-252.
\* The program compares contents and never looks into one: of the contents
\* that no store, page or call holds, the least stands for all that the
\* operator can type
EditorChange(s, c) ==
  LET held == { FromBase64(store[b][p].content) : b \in Branches, p \in Paths }
                \cup { currentPage[x].content : x \in Sessions }
                \cup UNION { { t.content : t \in InFlight(x) } : x \in Sessions }
  IN  /\ EditorShown(s)
      /\ c \in held \/ \A d \in Contents \ held : c <= d
      /\ handleContentChange(s, c)

(***************************************************************************)
(* UnsavedChangesModal onDiscard / onCancel (page.tsx:200-210)             *)
(***************************************************************************)
onDiscard(s) ==
  /\ UiShown(s) /\ showUnsavedWarning[s] /\ MoreEvents
  /\ IF pendingNavigation[s] # NoPath
       THEN /\ HasFree(s)
            /\ isLoading' = [isLoading EXCEPT ![s] = TRUE]
            /\ tasks' = Started(s, LoadTask(pendingNavigation[s], "discard"))
       ELSE UNCHANGED <<isLoading, tasks>>
  /\ showUnsavedWarning' = [showUnsavedWarning EXCEPT ![s] = FALSE]
  /\ pendingNavigation' = [pendingNavigation EXCEPT ![s] = NoPath]
  /\ events' = events + 1
  /\ UNCHANGED <<store, pages, currentPage, isSaving, error, unsaved, stale, saveOutcome>>
  /\ SyncFrame

onCancel(s) ==
  /\ UiShown(s) /\ showUnsavedWarning[s] /\ MoreEvents
  /\ showUnsavedWarning' = [showUnsavedWarning EXCEPT ![s] = FALSE]
  /\ pendingNavigation' = [pendingNavigation EXCEPT ![s] = NoPath]
  /\ events' = events + 1
  /\ UNCHANGED <<store, pages, currentPage, isLoading, isSaving, error, tasks,
                 unsaved, stale, saveOutcome>>
  /\ SyncFrame

(***************************************************************************)
(* handleSave (page.tsx:135-162) over commitFile (lib/github.ts:57-86)     *)
(***************************************************************************)
\* the closure of handleSave holds currentPage and pendingNavigation of the
\* render it was created in
SaveTask(s) == [IdleTask EXCEPT !.kind = "save", !.pc = "getSha",
                                !.path = currentPage[s].path,
                                !.content = currentPage[s].content,
                                !.nav = pendingNavigation[s]]

\* line 136 without its isDirty test
NothingToSaveNullOnly(s) == currentPage[s] = NoPage

\* line 136: nothing to save
NothingToSave(s) == currentPage[s] = NoPage \/ ~currentPage[s].isDirty

\* line 136, and the synchronous prefix up to the first await of commitFile
handleSave(s) ==
  /\ MoreEvents
  /\ IF NothingToSave(s)
       THEN /\ saveOutcome' = [saveOutcome EXCEPT ![s] = "nothingToSave"]
            /\ UNCHANGED <<isSaving, error, tasks>>
       ELSE /\ HasFree(s)
            /\ isSaving' = [isSaving EXCEPT ![s] = TRUE]
            /\ error' = [error EXCEPT ![s] = NoError]
            /\ tasks' = Started(s, SaveTask(s))
            /\ saveOutcome' = [saveOutcome EXCEPT ![s] = "started"]
  /\ events' = events + 1
  /\ UNCHANGED <<store, pages, currentPage, isLoading, showUnsavedWarning,
                 pendingNavigation, unsaved, stale>>
  /\ SyncFrame

\* TopBar's button, onClick={onSave}
TopBarSave(s) == SaveButtonEnabled(s) /\ handleSave(s)

\* UnsavedChangesModal, onSave={() => handleSave()}
ModalSave(s) == UiShown(s) /\ showUnsavedWarning[s] /\ handleSave(s)

\* commitFile lines 65-72: read the current sha; a failed read is swallowed
commitGetSha(s, t, ok) ==
  /\ t \in InFlight(s)
  /\ t.kind = "save" /\ t.pc = "getSha"
  /\ tasks' = Advanced(s, t, [t EXCEPT !.pc = "put",
                                       !.sha = IF ok THEN getSha(t.path) ELSE NoSha])
  /\ UNCHANGED <<store, pages, currentPage, isLoading, isSaving, error, events,
                 showUnsavedWarning, pendingNavigation, unsaved, stale, saveOutcome>>
  /\ SyncFrame

\* the sessions whose in-memory page, or commit under way, rests on a read of p
ReliesOn(x, p) ==
  \/ currentPage[x].path = p
  \/ \E u \in InFlight(x) : u.kind = "save" /\ u.pc \in {"getSha", "put"} /\ u.path = p

\* setCurrentPage(prev => prev ? { ...prev, isDirty: false } : null), line 147
MarkClean(pg) == IF pg = NoPage THEN NoPage ELSE [pg EXCEPT !.isDirty = FALSE]

\* commitFile line 84, its payload naming config.branch, accepted by the store,
\* then handleSave line 147
commitPutOk(s, t) ==
  /\ t \in InFlight(s)
  /\ t.kind = "save" /\ t.pc = "put"
  /\ PutAccepted(gitHubConfig[s], t.path, t.sha)
  /\ store[gitHubConfig[s]][t.path].rev < MaxRev
  /\ store' = StoreAfterPut(gitHubConfig[s], t.path, t.content)
  /\ currentPage' = [currentPage EXCEPT ![s] = MarkClean(@)]
  /\ tasks' = Advanced(s, t, [t EXCEPT !.pc = "reread"])
  /\ unsaved' = [unsaved EXCEPT ![s] =
                   IF currentPage[s].path = t.path /\ currentPage[s].content = t.content
                     THEN FALSE ELSE @]
  /\ stale' = [x \in Sessions |->
                 IF x # s /\ ReliesOn(x, t.path) THEN stale[x] \cup {t.path} ELSE stale[x]]
  /\ saveOutcome' = [saveOutcome EXCEPT ![s] = "committed"]
  /\ heldSha' = [heldSha EXCEPT ![s] =
                   IF currentPage[s].path = t.path
                     THEN store'[gitHubConfig[s]][t.path].rev ELSE @]
  /\ UNCHANGED <<pages, isLoading, isSaving, error, events, showUnsavedWarning,
                 pendingNavigation>>
  /\ OtherFrame

\* a catch block that also gives up the edits
SaveFailedMarksClean(s, t, msg, o) ==
  /\ error' = [error EXCEPT ![s] = "Failed to save: " \o msg]
  /\ isSaving' = [isSaving EXCEPT ![s] = FALSE]
  /\ currentPage' = [currentPage EXCEPT ![s] = MarkClean(@)]
  /\ tasks' = Finished(s, t)
  /\ saveOutcome' = [saveOutcome EXCEPT ![s] = o]
  /\ UNCHANGED <<store, pages, isLoading, showUnsavedWarning,
                 pendingNavigation, events, unsaved, stale>>
  /\ SyncFrame

\* the catch and finally blocks of handleSave, lines 157-161
SaveFailed(s, t, msg, o) ==
  /\ error' = [error EXCEPT ![s] = "Failed to save: " \o msg]
  /\ isSaving' = [isSaving EXCEPT ![s] = FALSE]
  /\ tasks' = Finished(s, t)
  /\ saveOutcome' = [saveOutcome EXCEPT ![s] = o]
  /\ UNCHANGED <<store, pages, currentPage, isLoading, showUnsavedWarning,
                 pendingNavigation, events, unsaved, stale>>
  /\ SyncFrame

\* a client that answers a refusal by reading the sha again
commitPutRefusedRetries(s, t) ==
  /\ t \in InFlight(s)
  /\ t.kind = "save" /\ t.pc = "put"
  /\ ~PutAccepted(gitHubConfig[s], t.path, t.sha)
  /\ tasks' = Advanced(s, t, [t EXCEPT !.pc = "getSha", !.sha = NoSha])
  /\ UNCHANGED <<store, pages, currentPage, isLoading, isSaving, error, events,
                 showUnsavedWarning, pendingNavigation, unsaved, stale, saveOutcome>>
  /\ SyncFrame

\* commitFile line 84 refused by the store (stale or missing sha)
commitPutRefused(s, t) ==
  /\ t \in InFlight(s)
  /\ t.kind = "save" /\ t.pc = "put"
  /\ ~PutAccepted(gitHubConfig[s], t.path, t.sha)
  /\ SaveFailed(s, t, PutRefusal(t.path, t.sha), "writeFailed")

\* commitFile line 84 fails before the store decides: transport or credentials
commitPutLost(s, t, k) ==
  /\ t \in InFlight(s)
  /\ t.kind = "save" /\ t.pc = "put"
  /\ SaveFailed(s, t, k, "writeFailed")

\* setCurrentPage(prev => prev ? { ...prev, content, isDirty: false } : null), line 151
ReplaceContent(pg, c) ==
  IF pg = NoPage THEN NoPage ELSE [pg EXCEPT !.content = c, !.isDirty = FALSE]

\* a handleSave without lines 153-156: it ends at the re-read
rereadOkForgetsNavigation(s, t) ==
  /\ t \in InFlight(s)
  /\ t.kind = "save" /\ t.pc = "reread"
  /\ currentPage' = [currentPage EXCEPT ![s] = ReplaceContent(@, getFileContent(t.path))]
  /\ unsaved' = [unsaved EXCEPT ![s] = FALSE]
  /\ stale' = [stale EXCEPT ![s] = @ \ {t.path}]
  /\ isSaving' = [isSaving EXCEPT ![s] = FALSE]
  /\ tasks' = Finished(s, t)
  /\ saveOutcome' = [saveOutcome EXCEPT ![s] = "reread"]
  /\ UNCHANGED <<store, pages, error, events, showUnsavedWarning, pendingNavigation,
                 isLoading>>
  /\ SyncFrame

\* handleSave lines 150-156: the confirmatory re-read returns, then the
\* pending navigation of the closure starts loadPage
rereadOk(s, t) ==
  /\ t \in InFlight(s)
  /\ t.kind = "save" /\ t.pc = "reread"
  /\ currentPage' = [currentPage EXCEPT ![s] = ReplaceContent(@, getFileContent(t.path))]
  /\ unsaved' = [unsaved EXCEPT ![s] = FALSE]
  /\ stale' = [stale EXCEPT ![s] = @ \ {t.path}]
  /\ IF t.nav # NoPath
       THEN /\ isLoading' = [isLoading EXCEPT ![s] = TRUE]
            /\ tasks' = Advanced(s, t, [t EXCEPT !.pc = "navLoad"])
            /\ UNCHANGED isSaving
       ELSE /\ isSaving' = [isSaving EXCEPT ![s] = FALSE]
            /\ tasks' = Finished(s, t)
            /\ UNCHANGED isLoading
  /\ saveOutcome' = [saveOutcome EXCEPT ![s] = "reread"]
  /\ UNCHANGED <<store, pages, error, events, showUnsavedWarning, pendingNavigation>>
  /\ SyncFrame

rereadFail(s, t, k) ==
  /\ t \in InFlight(s)
  /\ t.kind = "save" /\ t.pc = "reread"
  /\ SaveFailed(s, t, k, "rereadFailed")

\* await loadPage(pendingNavigation), line 155, then the finally of handleSave
navLoadOk(s, t) ==
  /\ t \in InFlight(s)
  /\ t.kind = "save" /\ t.pc = "navLoad"
  /\ currentPage' = [currentPage EXCEPT ![s] = EditorPage(t.nav, getFileContent(t.nav), FALSE)]
  /\ error' = [error EXCEPT ![s] = NoError]
  /\ showUnsavedWarning' = [showUnsavedWarning EXCEPT ![s] = FALSE]
  /\ pendingNavigation' = [pendingNavigation EXCEPT ![s] = NoPath]
  /\ isLoading' = [isLoading EXCEPT ![s] = FALSE]
  /\ isSaving' = [isSaving EXCEPT ![s] = FALSE]
  /\ tasks' = Finished(s, t)
  /\ unsaved' = [unsaved EXCEPT ![s] = FALSE]
  /\ stale' = [stale EXCEPT ![s] = @ \ {t.nav}]
  /\ heldSha' = [heldSha EXCEPT ![s] = getSha(t.nav)]
  /\ UNCHANGED <<store, pages, events, saveOutcome>>
  /\ OtherFrame

navLoadFail(s, t, k) ==
  /\ t \in InFlight(s)
  /\ t.kind = "save" /\ t.pc = "navLoad"
  /\ error' = [error EXCEPT ![s] = "Failed to load page: " \o k]
  /\ isLoading' = [isLoading EXCEPT ![s] = FALSE]
  /\ isSaving' = [isSaving EXCEPT ![s] = FALSE]
  /\ tasks' = Finished(s, t)
  /\ UNCHANGED <<store, pages, currentPage, showUnsavedWarning, pendingNavigation,
                 events, unsaved, stale, saveOutcome>>
  /\ SyncFrame

(***************************************************************************)
(* Media references held in page content.  A reference string is the       *)
(* sequence of its segments between slashes: "/images/a.png" is            *)
(* <<"", "images", "a.png">>, the empty string is << >>.                   *)
(***************************************************************************)
MaxClock    == 2     \* milliseconds Date.now() advances over
MaxRequests == 1     \* requests to /api/upload in flight per editor
MaxMediaEvents == 2  \* uploads and deletes the operator starts

Editors   == {"officers", "documents"}
FileNames == {"new pic.png", "new_pic.png"}

NoRef == << >>

\* the folder an editor uploads to: handleImageUpload appends no folder field,
\* handleDocumentUpload appends 'pdfs' (page.tsx:1467)
FolderField(e) == IF e = "documents" THEN "pdfs" ELSE ""

\* the asset the page references before any replacement
OldName(e) == IF e = "documents" THEN "old.pdf" ELSE "old.png"
OldFolder(e) == IF e = "documents" THEN "pdfs" ELSE "images"

\* the forms in which page content references that asset
RefForms(e) ==
  { NoRef,
    <<"https:", "", "itsnicko.github.io", "North-Dakota-TSA-Website", OldFolder(e), OldName(e)>>,
    <<"https:", "", "itsnicko.github.io", "North-Dakota-TSA-Website", OldFolder(e),
      OldName(e) \o "?v=1">>,
    <<"", OldFolder(e), OldName(e)>>,
    <<OldFolder(e), OldName(e)>>,
    <<OldName(e)>> }

HasQuery(seg)    == seg \in {"old.png?v=1", "old.pdf?v=1"}
BeforeQuery(seg) == CASE seg = "old.png?v=1" -> "old.png"
                      [] seg = "old.pdf?v=1" -> "old.pdf"
                      [] OTHER -> seg

StartsWithHttp(ref) == Len(ref) > 0 /\ ref[1] \in {"http:", "https:"}

\* the group (.+?)(?:\?|$) after position i: up to the first '?' or the end
Capture(ref, i) ==
  LET Q == { j \in (i+1)..Len(ref) : HasQuery(ref[j]) } IN
  IF Q = {} THEN SubSeq(ref, i + 1, Len(ref))
  ELSE LET j == CHOOSE k \in Q : \A m \in Q : k <= m
       IN  SubSeq(ref, i + 1, j - 1) \o <<BeforeQuery(ref[j])>>

\* positions where "/folder/" occurs with something after it
SlashFolderAt(ref, folder) ==
  { i \in 2..(Len(ref) - 1) : ref[i] = folder /\ ~(i + 1 = Len(ref) /\ ref[i + 1] = "") }

\* positions where "folder/" occurs with something after it
FolderAt(ref, folder) ==
  { i \in 1..(Len(ref) - 1) : ref[i] = folder /\ ~(i + 1 = Len(ref) /\ ref[i + 1] = "") }

First(S) == CHOOSE k \in S : \A m \in S : k <= m

\* oldUrl.replace(/^\/+/, '')
RECURSIVE StripLeadingSlashes(_)
StripLeadingSlashes(ref) ==
  IF Len(ref) > 1 /\ ref[1] = "" THEN StripLeadingSlashes(Tail(ref)) ELSE ref

\* handleImageUpload, page.tsx:1026-1035
ImageOldFileName(ref) ==
  IF ref = NoRef THEN NoRef
  ELSE IF SlashFolderAt(ref, "images") # {}
         THEN Capture(ref, First(SlashFolderAt(ref, "images")))
         ELSE NoRef

\* handleDocumentUpload, page.tsx:1469-1478
DocumentOldFileName(ref) ==
  IF ref = NoRef THEN NoRef
  ELSE IF SlashFolderAt(ref, "pdfs") # {}
         THEN Capture(ref, First(SlashFolderAt(ref, "pdfs")))
  ELSE IF FolderAt(ref, "pdfs") # {}
         THEN Capture(ref, First(FolderAt(ref, "pdfs")))
  ELSE IF ~StartsWithHttp(ref) THEN StripLeadingSlashes(ref)
  ELSE NoRef

OldFileNameOf(e, ref) ==
  IF e = "documents" THEN DocumentOldFileName(ref) ELSE ImageOldFileName(ref)

RefOf(e) == IF e = "documents" THEN documentUrl ELSE officerImage

(***************************************************************************)
(* POST /api/upload (route.ts:9-104, and its second version 179-231)       *)
(***************************************************************************)
IMAGES_FOLDER == "images"

\* branch: 'main' in every PUT and DELETE of the route (route.ts:41, 74, 139),
\* on the repository GITHUB_OWNER/GITHUB_REPO of lines 5-6: `media` is that store
UPLOAD_BRANCH == "main"

\* file.name.replace(/[^a-zA-Z0-9.-]/g, '_')
sanitizeFileName(name) == CASE name = "new pic.png" -> "new_pic.png"
                            [] OTHER -> name

\* `${timestamp}-${originalName}`
GeneratedName(ts, name) == ToString(ts) \o "-" \o sanitizeFileName(name)

\* folderFromForm && folderFromForm.trim() ? folderFromForm.trim() : IMAGES_FOLDER
folderName(field) == IF field # "" THEN field ELSE IMAGES_FOLDER

buildPath(folder, file) == <<folder>> \o file

NoUpload == [pc |-> "idle", file |-> "", folder |-> "", ref |-> NoRef, old |-> NoRef,
             path |-> NoRef, uploaded |-> FALSE, delIssued |-> FALSE,
             delFailed |-> FALSE, status |-> "none"]

OldPath(r) == buildPath(folderName(r.folder), r.old)

NoRemove == [pc |-> "idle", fileName |-> NoRef, folder |-> "", target |-> NoRef,
             status |-> "none"]

\* the assets the page references before any replacement
InitialMedia == (<<"images", "old.png">> :> "old.png") @@ (<<"pdfs", "old.pdf">> :> "old.pdf")

\* the asset paths the store holds
Assets == DOMAIN media

\* the asset a reference of the page names: each form of RefForms is a way
\* to write folder/name of the editor's asset
ReferencedAsset(e, ref) == IF ref = NoRef THEN NoRef ELSE <<OldFolder(e), OldName(e)>>

MediaInit ==
  /\ media = InitialMedia
  /\ clock = 1
  /\ officerImage \in RefForms("officers")
  /\ documentUrl \in RefForms("documents")
  /\ upload = [e \in Editors |-> NoUpload]
  /\ remove = [e \in Editors |-> NoRemove]
  /\ committedAssets = [e \in Editors |-> ReferencedAsset(e, RefOf(e))]

\* the route and the editors commit no page
MediaFrame == UNCHANGED <<syncVars, setupVars, committedAssets, configPage, data>>

\* the operator picks a file or clicks a delete button: one more user event
MediaUserFrame ==
  /\ events < MaxMediaEvents
  /\ events' = events + 1
  /\ UNCHANGED <<store, pages, currentPage, isLoading, isSaving, error, showUnsavedWarning,
                 pendingNavigation, tasks, unsaved, stale, saveOutcome, heldSha, setupVars,
                 committedAssets, configPage, data>>

\* the fetches of an editor that have not returned
Requests(e) == (IF upload[e].pc # "idle" THEN 1 ELSE 0) + (IF remove[e].pc # "idle" THEN 1 ELSE 0)

\* handleImageUpload / handleDocumentUpload up to the fetch
StartUpload(e, f) ==
  /\ upload[e].pc = "idle" /\ Requests(e) < MaxRequests
  /\ upload' = [upload EXCEPT ![e] =
                  [NoUpload EXCEPT !.pc = "put", !.file = f, !.folder = FolderField(e),
                                   !.ref = RefOf(e), !.old = OldFileNameOf(e, RefOf(e))]]
  /\ UNCHANGED <<media, clock, officerImage, documentUrl, remove>>
  /\ MediaUserFrame

\* a route that cleans up the old file whether or not the new one was stored
AfterPutDeletesAnyway(stored, old) == IF old # NoRef THEN "getOld" ELSE "respond"

\* where the route goes after the PUT of the new asset
AfterPut(stored, old) ==
  IF ~stored THEN "respond" ELSE IF old # NoRef THEN "getOld" ELSE "respond"

\* const filepath = `${folderName}/${filename}` of the request of editor e
UploadTarget(e) ==
  buildPath(folderName(upload[e].folder), <<GeneratedName(clock, upload[e].file)>>)

\* a PUT that first looks up the sha of the path and sends it, as commitFile does
PutNewSendsSha(path, ok) == ok

\* route.ts:24-37: the PUT carries no sha, the store accepts it for a new path only
PutNew(path, ok) == ok /\ path \notin Assets

\* route.ts:24-49: the new asset is written, failure goes to the outer catch
RoutePut(e, ok) ==
  LET r      == upload[e]
      path   == UploadTarget(e)
      stored == PutNew(path, ok)
  IN
  /\ r.pc = "put"
  /\ media' = IF stored THEN (path :> r.file) @@ media ELSE media
  /\ upload' = [upload EXCEPT ![e] =
                  [r EXCEPT !.pc = AfterPut(stored, r.old),
                            !.path = IF stored THEN path ELSE NoRef,
                            !.uploaded = stored,
                            !.status = IF stored THEN "success" ELSE "error"]]
  /\ UNCHANGED <<clock, officerImage, documentUrl, remove>>
  /\ MediaFrame

\* a route without the inner try/catch: the error reaches the outer catch
AfterDeleteErrorPropagates(status) == "error"

\* what the route answers when the look-up or the delete of the old file throws
\* (route.ts:82-85: caught and logged)
AfterDeleteError(status) == status

\* route.ts:56-65: GET the sha of the old file
RouteGetOld(e, ok) ==
  LET r     == upload[e]
      found == ok /\ OldPath(r) \in Assets
  IN
  /\ r.pc = "getOld"
  /\ upload' = [upload EXCEPT ![e] =
                  IF found THEN [r EXCEPT !.pc = "delete"]
                  ELSE [r EXCEPT !.pc = "respond", !.delFailed = TRUE,
                                 !.status = AfterDeleteError(r.status)]]
  /\ UNCHANGED <<media, clock, officerImage, documentUrl, remove>>
  /\ MediaFrame

\* route.ts:67-81: DELETE the old file
RouteDelete(e, ok) ==
  LET r       == upload[e]
      deleted == ok /\ OldPath(r) \in Assets
  IN
  /\ r.pc = "delete"
  /\ media' = IF deleted THEN [a \in Assets \ {OldPath(r)} |-> media[a]] ELSE media
  /\ upload' = [upload EXCEPT ![e] =
                  [r EXCEPT !.pc = "respond", !.delIssued = TRUE,
                            !.delFailed = ~deleted,
                            !.status = IF deleted THEN r.status
                                       ELSE AfterDeleteError(r.status)]]
  /\ UNCHANGED <<clock, officerImage, documentUrl, remove>>
  /\ MediaFrame

\* page.tsx:1046-1051 / 1484-1491: the editor splices data.path into the page
ReceiveResponse(e) ==
  LET r == upload[e] IN
  /\ r.pc = "respond"
  /\ officerImage' = IF e = "officers" /\ r.status = "success" THEN r.path ELSE officerImage
  /\ documentUrl' = IF e = "documents" /\ r.status = "success" THEN r.path ELSE documentUrl
  /\ upload' = [upload EXCEPT ![e] = NoUpload]
  /\ UNCHANGED <<media, clock, remove>>
  /\ MediaFrame

(***************************************************************************)
(* DELETE /api/upload (route.ts:106-157, and its second version 233-261)   *)
(* with its callers deleteImage (page.tsx:1057-1072) and                   *)
(* deleteDocumentFile (page.tsx:1497-1521)                                 *)
(***************************************************************************)
\* deleteImage, page.tsx:1061-1063
DeleteImageFileName(ref) ==
  IF SlashFolderAt(ref, "images") # {}
    THEN Capture(ref, First(SlashFolderAt(ref, "images")))
    ELSE NoRef

\* deleteDocumentFile, page.tsx:1500-1505: the second pattern is anchored
DeleteDocumentFileName(ref) ==
  IF SlashFolderAt(ref, "pdfs") # {}
    THEN Capture(ref, First(SlashFolderAt(ref, "pdfs")))
  ELSE IF 1 \in FolderAt(ref, "pdfs") THEN Capture(ref, 1)
  ELSE IF ~StartsWithHttp(ref) THEN StripLeadingSlashes(ref)
  ELSE NoRef

\* the body the caller sends: { fileName } or { fileName, folder: 'pdfs' }
RemoveRequest(e, ref) ==
  [NoRemove EXCEPT !.pc = "get",
                   !.fileName = IF e = "documents" THEN DeleteDocumentFileName(ref)
                                                   ELSE DeleteImageFileName(ref),
                   !.folder = FolderField(e)]

\* deleteImage: the fetch is not awaited, the reference is cleared at once
deleteImage ==
  LET q == RemoveRequest("officers", officerImage) IN
  /\ officerImage # NoRef
  /\ remove["officers"].pc = "idle" /\ Requests("officers") < MaxRequests
  /\ remove' = IF q.fileName # NoRef THEN [remove EXCEPT !["officers"] = q] ELSE remove
  /\ officerImage' = NoRef
  /\ UNCHANGED <<media, clock, documentUrl, upload>>
  /\ MediaUserFrame

\* deleteDocumentFile up to the fetch; without a file name the entry goes at once
deleteDocumentFile ==
  LET q == RemoveRequest("documents", documentUrl) IN
  /\ documentUrl # NoRef
  /\ remove["documents"].pc = "idle" /\ Requests("documents") < MaxRequests
  /\ IF q.fileName # NoRef
       THEN /\ remove' = [remove EXCEPT !["documents"] = q]
            /\ UNCHANGED documentUrl
       ELSE /\ documentUrl' = NoRef
            /\ UNCHANGED remove
  /\ UNCHANGED <<media, clock, officerImage, upload>>
  /\ MediaUserFrame

\* route.ts:113-119: only fileName is read from the body
DeleteTarget(fileName, folder) == buildPath(IMAGES_FOLDER, fileName)

\* route.ts:121-130: GET the sha of the file; a failure goes to the catch
DeleteRouteGet(e, ok) ==
  LET q      == remove[e]
      target == DeleteTarget(q.fileName, q.folder)
      found  == ok /\ target \in Assets
  IN
  /\ q.pc = "get"
  /\ remove' = [remove EXCEPT ![e] =
                  IF found THEN [q EXCEPT !.pc = "delete", !.target = target]
                  ELSE [q EXCEPT !.pc = "respond", !.target = target, !.status = "error"]]
  /\ UNCHANGED <<media, clock, officerImage, documentUrl, upload>>
  /\ MediaFrame

\* route.ts:132-148: DELETE the file
DeleteRouteDelete(e, ok) ==
  LET q       == remove[e]
      deleted == ok /\ q.target \in Assets
  IN
  /\ q.pc = "delete"
  /\ media' = IF deleted THEN [a \in Assets \ {q.target} |-> media[a]] ELSE media
  /\ remove' = [remove EXCEPT ![e] =
                  [q EXCEPT !.pc = "respond",
                            !.status = IF deleted THEN "success" ELSE "error"]]
  /\ UNCHANGED <<clock, officerImage, documentUrl, upload>>
  /\ MediaFrame

\* the response reaches the caller: deleteDocumentFile goes on to drop the
\* entry whatever the answer (page.tsx:1519-1520), deleteImage ignores it
ReceiveDeleteResponse(e) ==
  /\ remove[e].pc = "respond"
  /\ documentUrl' = IF e = "documents" THEN NoRef ELSE documentUrl
  /\ remove' = [remove EXCEPT ![e] = NoRemove]
  /\ UNCHANGED <<media, clock, officerImage, upload>>
  /\ MediaFrame

\* Date.now() advances
Tick ==
  /\ clock < MaxClock
  /\ clock' = clock + 1
  /\ UNCHANGED <<media, officerImage, documentUrl, upload, remove>>
  /\ MediaFrame

(***************************************************************************)
(* The editor sessions against one repository                              *)
(***************************************************************************)
\* no media is touched while the synchroniser is studied, and the reverse:
\* the page that is open mounts no uploading editor
MediaIdle ==
  /\ media = InitialMedia
  /\ clock = 1
  /\ officerImage = NoRef
  /\ documentUrl = NoRef
  /\ upload = << >>
  /\ remove = << >>
  /\ committedAssets = << >>

(***************************************************************************)
(* JSONVisualEditor (page.tsx:265-420) over a page of the site's settings  *)
(***************************************************************************)
\* JavaScript values: strings, booleans, arrays (by what they list), undefined
JsValue(type, x) == <<type, x>>
Undefined        == <<"undefined">>

\* what `v && ...` renders for (page.tsx:343)
Truthy(v) == v \notin {Undefined, JsValue("string", ""), JsValue("boolean", FALSE)}

\* o[k] of an object: a member the object lacks reads as undefined
Get(o, k) == IF k \in DOMAIN o THEN o[k] ELSE Undefined

\* JSON.stringify(o, null, indent): the members that are not undefined, laid
\* out with the indentation
JSONstringify(o, indent) ==
  [members |-> [k \in { x \in DOMAIN o : o[x] # Undefined } |-> o[k]], indent |-> indent]

\* JSON.parse(text): the layout is gone
JSONparse(text) == text.members

\* page.tsx:125-133, the onChange prop of the visual editor, over the
\* currentPage of the render that made the callback
onChange(page, newContent) == [page EXCEPT !.content = newContent, !.isDirty = TRUE]

\* page.tsx:279-296 up to the two reports: the deep copy with one field set
updateField(d, k, value) ==
  LET newData == JSONparse(JSONstringify(d, 0))
  IN  [x \in DOMAIN newData \cup {k} |-> IF x = k THEN value ELSE newData[x]]

\* what the operator can type into the two inputs
BannerTexts == { JsValue("string", x) : x \in {"", "Opens 09/09", "Closed"} }
BannerLinks == { JsValue("string", x) : x \in {"", "https://tsa"} }

\* the settings as committed: a banner that shows, with or without its link
\* and its flag, next to the quick links
ConfigObjects ==
  { [k \in K |-> CASE k = "Banner"         -> o.banner
                  [] k = "BannerLink"     -> o.link
                  [] k = "BannerRedirect" -> JsValue("boolean", o.redirect)
                  [] k = "QuickLinks"     -> JsValue("array", 1)] :
      o \in [banner : BannerTexts \ {JsValue("string", "")}, link : BannerLinks,
             redirect : BOOLEAN],
      K \in { S \cup {"Banner"} : S \in SUBSET {"BannerLink", "BannerRedirect", "QuickLinks"} } }

\* no page is open in the JSON visual editor
VisualIdle ==
  /\ configPage = [content |-> JSONstringify(<< >>, 0), isDirty |-> FALSE]
  /\ data = << >>

\* the page is loaded, as committed with either layout, and the effect of the
\* mount has parsed it (page.tsx:269-278)
VisualInit ==
  /\ \E o \in ConfigObjects, indent \in {0, 2} :
       configPage = [content |-> JSONstringify(o, indent), isDirty |-> FALSE]
  /\ data = JSONparse(configPage.content)

\* the render after an event handler: the state that was set last stays, and
\* the effect parses the page again when its content is another text
Render(newData, page) ==
  /\ configPage' = page
  /\ data' = IF page.content # configPage.content THEN JSONparse(page.content) ELSE newData
  /\ UNCHANGED <<syncVars, setupVars, mediaVars>>

\* LinkSectionEditor of the quick links (page.tsx:319-325)
QuickLinksChange(links) ==
  /\ "QuickLinks" \in DOMAIN data /\ Get(data, "QuickLinks") # links
  /\ LET newData == updateField(data, "QuickLinks", links)
     IN  Render(newData, onChange(configPage, JSONstringify(newData, 2)))

\* the onChange of the banner editor (page.tsx:343-354): three calls of
\* updateField in one handler, each over the data and the currentPage of
\* the render, each setting both states
BannerSectionEditorOnChange(banner, link, redirect) ==
  /\ Truthy(Get(data, "Banner"))
  /\ LET d1 == updateField(data, "Banner", banner)
         p1 == onChange(configPage, JSONstringify(d1, 2))
         d2 == updateField(data, "BannerLink", link)
         p2 == onChange(configPage, JSONstringify(d2, 2))
         d3 == updateField(data, "BannerRedirect", redirect)
         p3 == onChange(configPage, JSONstringify(d3, 2))
         setData        == <<d1, d2, d3>>
         setCurrentPage == <<p1, p2, p3>>
     IN  Render(setData[3], setCurrentPage[3])

\* the three inputs of BannerSectionEditor (page.tsx:625-690): the input
\* that changed reports its value next to the props of the other two
BannerSectionEditor(input, v) ==
  LET banner         == Get(data, "Banner")
      bannerLink     == Get(data, "BannerLink")
      bannerRedirect == Get(data, "BannerRedirect")
  IN  /\ v # Get(data, input)
      /\ input = "BannerRedirect" => v = JsValue("boolean", ~Truthy(bannerRedirect))
      /\ BannerSectionEditorOnChange(IF input = "Banner" THEN v ELSE banner,
                                     IF input = "BannerLink" THEN v ELSE bannerLink,
                                     IF input = "BannerRedirect" THEN v ELSE bannerRedirect)

SyncIdle ==
  /\ store = InitialStore
  /\ listing = RootListing
  /\ Configured
  /\ pages = [s \in Sessions |-> jsonPages(discoverPages("ok", RootListing))]
  /\ currentPage = [s \in Sessions |-> EditorPage("about.json", 1, FALSE)]
  /\ isLoading = [s \in Sessions |-> FALSE]
  /\ isSaving = [s \in Sessions |-> FALSE]
  /\ error = [s \in Sessions |-> NoError]
  /\ showUnsavedWarning = [s \in Sessions |-> FALSE]
  /\ pendingNavigation = [s \in Sessions |-> NoPath]
  /\ tasks = [s \in Sessions |-> EmptyBag]
  /\ events = 0
  /\ unsaved = [s \in Sessions |-> FALSE]
  /\ stale = [s \in Sessions |-> {}]
  /\ saveOutcome = [s \in Sessions |-> "none"]
  /\ heldSha = [s \in Sessions |-> 0]

Init == SyncInit /\ MediaIdle /\ VisualIdle

\* the requests in flight return in any order
LoadReturns(s)        == \E t \in InFlight(s) : LoadPageOk(s, t)
LoadFails(s, k)       == \E t \in InFlight(s) : LoadPageFail(s, t, k)
ShaReadReturns(s, ok) == \E t \in InFlight(s) : commitGetSha(s, t, ok)
WriteAccepted(s)      == \E t \in InFlight(s) : commitPutOk(s, t)
WriteRefused(s)       == \E t \in InFlight(s) : commitPutRefused(s, t)
WriteLost(s, k)       == \E t \in InFlight(s) : commitPutLost(s, t, k)
RereadReturns(s)      == \E t \in InFlight(s) : rereadOk(s, t)
RereadFails(s, k)     == \E t \in InFlight(s) : rereadFail(s, t, k)
NavLoadReturns(s)     == \E t \in InFlight(s) : navLoadOk(s, t)
NavLoadFails(s, k)    == \E t \in InFlight(s) : navLoadFail(s, t, k)

Next ==
  \/ \E s \in Sessions, o \in Outcomes : InitializeApp(s, o)
  \/ \E s \in Sessions, p \in Paths : handleSelectPage(s, p)
  \/ \E s \in Sessions, c \in Contents : EditorChange(s, c)
  \/ \E s \in Sessions : onDiscard(s)
  \/ \E s \in Sessions : onCancel(s)
  \/ \E s \in Sessions : TopBarSave(s)
  \/ \E s \in Sessions : ModalSave(s)
  \/ \E s \in Sessions : LoadReturns(s)
  \/ \E s \in Sessions, k \in RequestFailures : LoadFails(s, k)
  \/ \E s \in Sessions, ok \in BOOLEAN : ShaReadReturns(s, ok)
  \/ \E s \in Sessions : WriteAccepted(s)
  \/ \E s \in Sessions : WriteRefused(s)
  \/ \E s \in Sessions, k \in RequestFailures : WriteLost(s, k)
  \/ \E s \in Sessions : RereadReturns(s)
  \/ \E s \in Sessions, k \in RequestFailures : RereadFails(s, k)
  \/ \E s \in Sessions : NavLoadReturns(s)
  \/ \E s \in Sessions, k \in RequestFailures : NavLoadFails(s, k)

Spec == Init /\ [][Next]_vars

\* a request of the session comes back, with an answer or with a failure
RequestReturns(s) ==
  \/ \E o \in Outcomes : InitializeApp(s, o)
  \/ LoadReturns(s)
  \/ \E ok \in BOOLEAN : ShaReadReturns(s, ok)
  \/ WriteAccepted(s) \/ WriteRefused(s)
  \/ RereadReturns(s)
  \/ NavLoadReturns(s)
  \/ \E k \in RequestFailures :
       LoadFails(s, k) \/ WriteLost(s, k) \/ RereadFails(s, k) \/ NavLoadFails(s, k)

\* no request of a session hangs for ever; the operator is free to stop
EveryRequestReturns == \A s \in Sessions : WF_vars(RequestReturns(s))

FairSpec == Init /\ [][Next]_vars /\ EveryRequestReturns

(***************************************************************************)
(* The media replacement protocol: the two uploading editors of one page   *)
(* against the upload route                                                *)
(***************************************************************************)
MediaSpecInit == SyncIdle /\ MediaInit /\ VisualIdle

MediaNext ==
  \/ \E e \in Editors, f \in FileNames : StartUpload(e, f)
  \/ \E e \in Editors, ok \in BOOLEAN : RoutePut(e, ok)
  \/ \E e \in Editors, ok \in BOOLEAN : RouteGetOld(e, ok)
  \/ \E e \in Editors, ok \in BOOLEAN : RouteDelete(e, ok)
  \/ \E e \in Editors : ReceiveResponse(e)
  \/ deleteImage
  \/ deleteDocumentFile
  \/ \E e \in Editors, ok \in BOOLEAN : DeleteRouteGet(e, ok)
  \/ \E e \in Editors, ok \in BOOLEAN : DeleteRouteDelete(e, ok)
  \/ \E e \in Editors : ReceiveDeleteResponse(e)
  \/ Tick

MediaSpec == MediaSpecInit /\ [][MediaNext]_vars

(***************************************************************************)
(* A browser without a stored configuration: the operator is prompted      *)
(* for repository, branch and token, then edits                            *)
(***************************************************************************)
\* session A has run its first effect (page.tsx:91-93); the tab of the other
\* session is not past its auth check
ConfigInit ==
  /\ store = InitialStore
  /\ listing = RootListing
  /\ gitHubConfig = [s \in Sessions |-> NoConfig]
  /\ showConfigModal = [s \in Sessions |-> s = "A"]
  /\ discovery = [s \in Sessions |-> "none"]
  /\ pages = [s \in Sessions |-> << >>]
  /\ currentPage = [s \in Sessions |-> NoPage]
  /\ isLoading = [s \in Sessions |-> s # "A"]
  /\ isSaving = [s \in Sessions |-> FALSE]
  /\ error = [s \in Sessions |-> NoError]
  /\ showUnsavedWarning = [s \in Sessions |-> FALSE]
  /\ pendingNavigation = [s \in Sessions |-> NoPath]
  /\ tasks = [s \in Sessions |-> EmptyBag]
  /\ events = 0
  /\ unsaved = [s \in Sessions |-> FALSE]
  /\ stale = [s \in Sessions |-> {}]
  /\ saveOutcome = [s \in Sessions |-> "none"]
  /\ heldSha = [s \in Sessions |-> NoSha]
  /\ MediaIdle
  /\ VisualIdle

ConfigNext ==
  \/ \E s \in Sessions, b \in Branches : handleConfigSubmit(s, b)
  \/ \E s \in Sessions : onCloseConfig(s)
  \/ Next

ConfigSpec == ConfigInit /\ [][ConfigNext]_vars

(***************************************************************************)
(* The visual editor on its own: one session with the settings page open   *)
(***************************************************************************)
BannerInit == SyncIdle /\ MediaIdle /\ VisualInit

BannerNext ==
  \/ \E v \in BannerTexts : BannerSectionEditor("Banner", v)
  \/ \E v \in BannerLinks : BannerSectionEditor("BannerLink", v)
  \/ \E b \in BOOLEAN : BannerSectionEditor("BannerRedirect", JsValue("boolean", b))
  \/ \E n \in 1..MaxLinks : QuickLinksChange(JsValue("array", n))

BannerSpec == BannerInit /\ [][BannerNext]_vars

(***************************************************************************)
(* Discovery on its own: the sessions start against any root listing       *)
(***************************************************************************)
Listings ==
  { q \in UNION { [1..n -> RootEntries] : n \in 0..MaxListing } :
      \A i, j \in DOMAIN q : i # j => q[i].name # q[j].name }

DiscoverInit ==
  /\ listing \in Listings
  /\ store = InitialStore
  /\ Configured
  /\ pages = [s \in Sessions |-> << >>]
  /\ currentPage = [s \in Sessions |-> NoPage]
  /\ isLoading = [s \in Sessions |-> TRUE]
  /\ isSaving = [s \in Sessions |-> FALSE]
  /\ error = [s \in Sessions |-> NoError]
  /\ showUnsavedWarning = [s \in Sessions |-> FALSE]
  /\ pendingNavigation = [s \in Sessions |-> NoPath]
  /\ tasks = [s \in Sessions |->
                SetToBag({[IdleTask EXCEPT !.kind = "init", !.pc = "discover"]})]
  /\ events = 0
  /\ unsaved = [s \in Sessions |-> FALSE]
  /\ stale = [s \in Sessions |-> {}]
  /\ saveOutcome = [s \in Sessions |-> "none"]
  /\ heldSha = [s \in Sessions |-> NoSha]
  /\ MediaIdle
  /\ VisualIdle

DiscoverNext == \E s \in Sessions, o \in Outcomes : InitializeApp(s, o)

DiscoverSpec == DiscoverInit /\ [][DiscoverNext]_vars

TypeOK ==
  /\ \A s \in Sessions : currentPage[s].path \in Paths \cup {NoPath}
  /\ \A b \in Branches : \A p \in Paths : store[b][p].rev \in 0..MaxRev

(***************************************************************************)
(* Properties of the synchroniser                                          *)
(***************************************************************************)
SaveCalls(s, p) ==
  LET S == { t \in InFlight(s) : t.kind = "save" /\ t.path = p }
  IN  BagCardinality([t \in S |-> CopiesIn(t, tasks[s])])

\* C1: a commit of a session succeeds only if no other session has committed
\* to that path since the session last read it; otherwise it fails with
\* Conflict and the other session's content stays.
C1_NoCrossSessionOverwrite ==
  [][\A s \in Sessions : \A t \in InFlight(s) :
       commitPutOk(s, t) => t.path \notin stale[s]]_vars

\* C2: a step that changes the path or the content of a Dirty page is an edit
\* of the operator or the load the operator asked for with Discard.
C2_DirtyNeverSilentlyDropped ==
  [][\A s \in Sessions :
       (/\ currentPage[s].isDirty
        /\ \/ currentPage'[s].path # currentPage[s].path
           \/ currentPage'[s].content # currentPage[s].content)
       => \/ \E c \in Contents : handleContentChange(s, c)
          \/ \E t \in InFlight(s) : t.origin = "discard" /\ LoadPageOk(s, t)]_vars

\* C3: at most one handleSave call is in flight per session and path.
C3_OneSaveInFlight ==
  \A s \in Sessions : \A p \in Paths : SaveCalls(s, p) <= 1

\* C4: when the confirmatory re-read of a save returns, the page is Clean and
\* its content is the content the store holds for the page's path.
C4_RereadConverges ==
  [][\A s \in Sessions : \A t \in InFlight(s) :
       rereadOk(s, t) =>
         /\ currentPage'[s] # NoPage
         /\ ~currentPage'[s].isDirty
         /\ currentPage'[s].content = getFileContent(currentPage'[s].path)]_vars

\* C5: the step in which the write of a save fails leaves the in-memory page
\* (path, content, dirty flag) and the store as they were and sets an error.
C5_WriteFailureKeepsEdits ==
  [][\A s \in Sessions : \A t \in InFlight(s) :
       (commitPutRefused(s, t) \/ \E k \in RequestFailures : commitPutLost(s, t, k)) =>
         /\ currentPage'[s] = currentPage[s]
         /\ unsaved'[s] = unsaved[s]
         /\ store' = store
         /\ error'[s] # NoError]_vars

\* a refused write has been reported and the edits are still in memory, Dirty
C5_Witness ==
  \E s \in Sessions :
    /\ saveOutcome[s] = "writeFailed"
    /\ error[s] = "Failed to save: 409"
    /\ currentPage[s].isDirty /\ unsaved[s]

\* C6: handleSave on a page that is not Dirty sends nothing to the store and
\* changes neither the page nor the store.
C6_SaveWithoutEditIsNoOp ==
  [][\A s \in Sessions :
       (handleSave(s) /\ ~currentPage[s].isDirty) =>
         UNCHANGED <<store, currentPage, tasks, isSaving, error>>]_vars

\* handleSave has returned at line 136 on an open page without edits
C6_Witness ==
  \E s \in Sessions :
    /\ saveOutcome[s] = "nothingToSave"
    /\ currentPage[s] # NoPage /\ ~currentPage[s].isDirty /\ ~unsaved[s]
    /\ currentPage[s].content = getFileContent(currentPage[s].path)

\* C7: a page whose content holds edits no commit has confirmed is Dirty.
C7_UncommittedEditsAreDirty ==
  \A s \in Sessions : unsaved[s] => currentPage[s].isDirty

(***************************************************************************)
(* Properties of the media replacement protocol (checked under MediaSpec)  *)
(***************************************************************************)
GeneratedNames(f) == { GeneratedName(ts, f) : ts \in 1..MaxClock }

\* C8: the step of the route in which the look-up or the delete of the old
\* asset fails removes no asset, the new one included, and the request still
\* answers success with the path folder/generatedName it stored.
C8_DeleteFailureSwallowed ==
  [][\A e \in Editors :
       LET r == upload'[e] IN
       (r.delFailed /\ ~upload[e].delFailed) =>
         /\ r.status = "success" /\ r.pc = "respond"
         /\ r.path = upload[e].path
         /\ r.path \in { buildPath(folderName(r.folder), <<n>>) : n \in GeneratedNames(r.file) }
         /\ media' = media]_vars

\* the route is about to answer success although the old asset was not deleted
C8_Witness ==
  \E e \in Editors :
    /\ upload[e].pc = "respond" /\ upload[e].delFailed
    /\ upload[e].status = "success"
    /\ OldPath(upload[e]) \in Assets

\* C9: the route looks up and deletes an old asset only in a request whose
\* upload was confirmed, and the step that confirms an upload stores the new
\* asset; a request whose upload failed issues no delete; the steps of the
\* route remove no asset but the old asset of such a request.
C9_DeleteOnlyAfterUpload ==
  [][/\ \A e \in Editors :
          LET r == upload'[e] IN
          /\ (r.pc \in {"getOld", "delete"} \/ r.delIssued) => r.uploaded
          /\ (r.uploaded /\ ~upload[e].uploaded) => r.path \in DOMAIN media'
          /\ r.status = "error" => (~r.delIssued /\ ~r.delFailed)
     /\ \A a \in Assets \ DOMAIN media' :
          \/ \E e \in Editors : /\ upload[e].pc = "delete" /\ upload[e].uploaded
                                /\ a = OldPath(upload[e])
          \/ \E e \in Editors, ok \in BOOLEAN : DeleteRouteDelete(e, ok)]_vars

\* the old asset has been deleted and the new one is stored
C9_Witness ==
  \E e \in Editors :
    /\ upload[e].delIssued /\ ~upload[e].delFailed
    /\ OldPath(upload[e]) \notin Assets
    /\ upload[e].path \in Assets

\* C10: whatever the form of the old reference, the request names the old
\* asset folder/filename as the file to delete.
C10_OldAssetIdentified ==
  \A e \in Editors :
    LET r == upload[e] IN
    (r.pc # "idle" /\ r.ref # NoRef) =>
      OldPath(r) = buildPath(folderName(r.folder), <<BeforeQuery(r.ref[Len(r.ref)])>>)

\* C11: an upload whose path folder/generatedName already holds an asset
\* fails: the stored assets, that one included, stay as they were, the request
\* answers an error and goes to no look-up or delete of the old asset.
C11_UploadNeverOverwrites ==
  [][\A e \in Editors : \A ok \in BOOLEAN :
       (RoutePut(e, ok) /\ UploadTarget(e) \in Assets) =>
         /\ media' = media
         /\ upload'[e].status = "error"
         /\ upload'[e].pc = "respond"
         /\ ~upload'[e].uploaded /\ ~upload'[e].delIssued]_vars

\* an upload has failed on the path where another file of the same generated
\* name, stored in the same millisecond, still is
C11_Witness ==
  \E e \in Editors :
    /\ upload[e].pc = "respond" /\ upload[e].status = "error"
    /\ UploadTarget(e) \in Assets
    /\ media[UploadTarget(e)] # upload[e].file
    /\ upload[e].old # NoRef

\* C12: a delete request targets folder/fileName in the folder its caller
\* named (images when it named none), so a delete for folder pdfs removes
\* pdfs/fileName.
C12_DeleteInCallersFolder ==
  \A e \in Editors :
    LET q == remove[e] IN
    q.target # NoRef => q.target = buildPath(folderName(q.folder), q.fileName)

(***************************************************************************)
(* Properties of page discovery                                            *)
(***************************************************************************)
\* C13: when the listing request fails, whatever the failure, discoverPages
\* answers the empty sequence: the session holds no pages and no error, and
\* the step sends nothing to the store and changes nothing in it.
C13_ListingFailureGivesNoPages ==
  [][\A s \in Sessions : \A k \in Failures :
       InitializeApp(s, k) =>
         /\ discoverPages(k, listing) = << >>
         /\ pages'[s] = << >>
         /\ error'[s] = NoError /\ ~showConfigModal'[s]
         /\ InFlight(s)' \subseteq InFlight(s)
         /\ store' = store /\ media' = media]_vars

\* a listing has failed and the session shows an empty sidebar, no error
C13_Witness ==
  \E s \in Sessions :
    /\ discovery[s] \in Failures
    /\ pages[s] = << >> /\ ~isLoading[s] /\ error[s] = NoError
    /\ \E i \in DOMAIN listing : IsPageFile(listing[i])

\* C14: discoverPages answers exactly the entries of the root that are files
\* named *.json or *.html, each once, typed json or html by its suffix, in
\* ascending order of name (the order of localeCompare); the session keeps
\* the json pages of that answer.
C14_DiscoveredPages ==
  LET d        == discoverPages("ok", listing)
      Expected == { f \in { listing[i] : i \in DOMAIN listing } :
                      f.type = "file" /\ Suffix(f.name) \in {".json", ".html"} }
  IN
  /\ { d[i].name : i \in DOMAIN d } = { f.name : f \in Expected }
  /\ Len(d) = Cardinality(Expected)
  /\ \A i \in DOMAIN d :
       /\ d[i].path = d[i].name
       /\ d[i].type = (IF Suffix(d[i].name) = ".json" THEN "json" ELSE "html")
  /\ \A i, j \in DOMAIN d : i < j => localeCompare(d[i].name, d[j].name) < 0
  /\ \A s \in Sessions :
       discovery[s] = "ok" =>
         /\ Listed(s) = { f.name : f \in { g \in Expected : Suffix(g.name) = ".json" } }
         /\ \A i, j \in DOMAIN pages[s] :
              i < j => localeCompare(pages[s][i].name, pages[s][j].name) < 0

\* a session has discovered the pages of a root that lists them out of
\* order, next to a directory named like a page
C14_Witness ==
  \E s \in Sessions :
    /\ discovery[s] = "ok" /\ Len(pages[s]) = 2
    /\ \E i, j \in DOMAIN listing :
         /\ i < j /\ IsPageFile(listing[i]) /\ IsPageFile(listing[j])
         /\ localeCompare(listing[i].name, listing[j].name) > 0
    /\ \E i \in DOMAIN listing : listing[i].type = "dir" /\ EndsWithJson(listing[i].name)

(***************************************************************************)
(* Properties of the repository client (checked under ConfigSpec, where    *)
(* the operator chooses the branch)                                        *)
(***************************************************************************)
\* C16: right after a commit of content c to path p has succeeded, a read of
\* p returns c.
C16_ReadAfterCommit ==
  [][\A s \in Sessions : \A t \in InFlight(s) :
       commitPutOk(s, t) =>
         FromBase64(store'[DefaultBranch][t.path].content) = t.content]_vars

C20_OneRepositoryReference ==
  [][\A s \in Sessions :
       /\ gitHubConfig[s] # NoConfig => gitHubConfig'[s] = gitHubConfig[s]
       /\ \A t \in InFlight(s) :
            commitPutOk(s, t) =>
              \A b \in Branches \ {DefaultBranch} : store'[b] = store[b]]_vars

(***************************************************************************)
(* Properties of the error handling and of the handlers, one by one        *)
(***************************************************************************)
\* the store has answered 401 to a request of the session: to the listing
\* of discovery, to the read of an open, or to a request of a save
AuthFailureSeen(s) ==
  \/ discovery[s] = "401"
  \/ error[s] \in {"Failed to load page: 401", "Failed to save: 401"}

\* C15: a session the store has answered 401 to is made to authenticate
\* again: it is shown the configuration prompt for new credentials rather
\* than an empty page list or an error banner over a session that goes on.
C15_AuthFailureForcesReauth ==
  \A s \in Sessions : AuthFailureSeen(s) => showConfigModal[s]

\* a handleSave call of the session has not yet seen its re-read return
SavePending(s) ==
  \E u \in InFlight(s) : u.kind = "save" /\ u.pc \in {"getSha", "put", "reread"}

\* C18: while a save of the session is pending, up to the return of its
\* re-read, no loadPage call starts and the open page stays the same page.
C18_NoSwitchWhileSaving ==
  [][\A s \in Sessions :
       SavePending(s) =>
         /\ \A t \in InFlight(s)' :
              t.kind = "load" => CopiesIn(t, tasks'[s]) <= CopiesIn(t, tasks[s])
         /\ currentPage'[s].path = currentPage[s].path]_vars

\* C19: handleContentChange(c) on an open page, Clean or Dirty, leaves that
\* page Dirty with content c; without a page it leaves the page state as it
\* is; either way it sends no request and changes nothing in the store.
C19_EditOnlyTouchesThePage ==
  [][\A s \in Sessions : \A c \in Contents :
       handleContentChange(s, c) =>
         /\ currentPage[s] # NoPage =>
              currentPage'[s] = EditorPage(currentPage[s].path, c, TRUE)
         /\ currentPage[s] = NoPage => currentPage'[s] = NoPage
         /\ tasks' = tasks /\ store' = store /\ media' = media
         /\ UNCHANGED <<pages, isLoading, isSaving, error, pendingNavigation>>]_vars

\* a page that was Dirty already has taken a further edit, nothing in flight
C19_Witness ==
  \E s \in Sessions :
    /\ currentPage[s].isDirty /\ unsaved[s]
    /\ currentPage[s].content = getFileContent(currentPage[s].path)
    /\ saveOutcome[s] = "none" /\ tasks[s] = EmptyBag

(***************************************************************************)
(* Properties of the tokens a save sends                                   *)
(***************************************************************************)
\* C21: the sha a save of the open page sends on its PUT is the sha the
\* store answered at the page's last open or last accepted write of the
\* session; the save reads no newer one before it writes.
C21_SaveSendsHeldToken ==
  \A s \in Sessions : \A t \in InFlight(s) :
    (t.kind = "save" /\ t.pc = "put" /\ t.sha # NoSha /\ t.path = currentPage[s].path) =>
      t.sha = heldSha[s]

\* the path holds a file on the branch that answers reads
PathExists(p) == p \in DOMAIN store[DefaultBranch]

\* C22: a save sends its PUT without a sha only for a path that does not
\* exist; after a sha read that failed for another reason (credentials,
\* transport) no PUT without a sha is sent.
C22_NoShaOnlyForNewPath ==
  \A s \in Sessions : \A t \in InFlight(s) :
    (t.kind = "save" /\ t.pc = "put" /\ t.sha = NoSha) => ~PathExists(t.path)

(***************************************************************************)
(* Properties of the calls of the repository client                        *)
(***************************************************************************)
\* the handleSave calls of the session that wait for the request named by pc
SavesAt(s, pc) ==
  LET S == { t \in InFlight(s) : t.kind = "save" /\ t.pc = pc }
  IN  BagCardinality([t \in S |-> CopiesIn(t, tasks[s])])

\* the loadPage calls the operator started that wait for their read
LoadsAt(s) ==
  LET S == { t \in InFlight(s) : t.kind = "load" }
  IN  BagCardinality([t \in S |-> CopiesIn(t, tasks[s])])

\* the step is the failure of the request of call t
RequestFails(s, t) ==
  \/ commitPutRefused(s, t)
  \/ \E k \in RequestFailures :
       \/ LoadPageFail(s, t, k) \/ commitPutLost(s, t, k)
       \/ rereadFail(s, t, k) \/ navLoadFail(s, t, k)

\* C23: every operation is single-shot.  A sha read is sent only by a
\* handleSave call the operator starts, a PUT only by the step that ends the
\* sha read of its call, so one save sends at most one write; a read of
\* loadPage is sent only by the operator's click.  A request that fails,
\* refusal for a stale sha included, ends its call: nothing is sent again
\* and the store keeps what it had.  (A step that leaves the calls in flight
\* of a session as they are sends nothing and ends nothing for it.)
C23_SingleShot ==
  [][\A s \in Sessions :
       tasks'[s] # tasks[s] =>
         LET shaReads  == SavesAt(s, "getSha")
             shaReads2 == SavesAt(s, "getSha")'
             puts      == SavesAt(s, "put")
             puts2     == SavesAt(s, "put")'
             loads     == LoadsAt(s)
             loads2    == LoadsAt(s)'
         IN  /\ shaReads2 > shaReads => (handleSave(s) /\ shaReads2 = shaReads + 1)
             /\ puts2 > puts => (puts2 = puts + 1 /\ shaReads2 = shaReads - 1)
             /\ loads2 > loads =>
                  ((onDiscard(s) \/ \E p \in Paths : handleSelectPage(s, p))
                   /\ loads2 = loads + 1)
             /\ \A t \in InFlight(s) :
                  RequestFails(s, t) =>
                    (tasks'[s] = tasks[s] (-) SetToBag({t}) /\ store' = store)]_vars

\* the store has refused a write for its stale sha and the session has
\* nothing in flight: the save was not tried again
C23_Witness ==
  \E s \in Sessions :
    /\ saveOutcome[s] = "writeFailed" /\ error[s] = "Failed to save: 409"
    /\ tasks[s] = EmptyBag /\ ~isSaving[s]
    /\ \E p \in Paths : store[DefaultBranch][p].rev > 0

(***************************************************************************)
(* The store of the media and the store of the pages (checked under        *)
(* ConfigSpec, where the operator chooses the branch)                      *)
(***************************************************************************)
\* C24: the media of the upload route and the page files of a session are
\* in one store: a commit of a page is written to the branch the route
\* writes images/ and pdfs/ to.
C24_MediaInTheSessionsStore ==
  [][\A s \in Sessions : \A t \in InFlight(s) :
       commitPutOk(s, t) => gitHubConfig[s] = UPLOAD_BRANCH]_vars

(***************************************************************************)
(* Properties of the content a session holds                               *)
(***************************************************************************)
\* C25: the content of the open page was read from the page's own path, or
\* edited from such content: every step that puts what a read of path p
\* returned into the open page leaves the page with path p, also when the
\* read is the re-read of a save and another page was opened meanwhile.
C25_ContentOfOwnPath ==
  [][\A s \in Sessions : \A t \in InFlight(s) :
       /\ LoadPageOk(s, t) => currentPage'[s].path = t.path
       /\ navLoadOk(s, t) => currentPage'[s].path = t.nav
       /\ rereadOk(s, t) =>
            (currentPage'[s] = NoPage \/ currentPage'[s].path = t.path)]_vars

(***************************************************************************)
(* The references of the committed page (checked under MediaSpec)          *)
(***************************************************************************)
\* C26: every asset the committed page references is in the store, whatever
\* the editors upload or delete before the page is saved, if it ever is.
C26_CommittedReferencesExist ==
  \A e \in Editors : committedAssets[e] # NoRef => committedAssets[e] \in Assets

C28_FailedOpenKeepsThePage ==
  [][\A s \in Sessions : \A t \in InFlight(s) : \A k \in RequestFailures :
       (LoadPageFail(s, t, k) \/ navLoadFail(s, t, k)) =>
         /\ currentPage'[s] = currentPage[s]
         /\ unsaved'[s] = unsaved[s]
         /\ error'[s] = "Failed to load page: " \o k /\ error'[s] # NoError
         /\ tasks'[s] = tasks[s] (-) SetToBag({t})
         /\ store' = store /\ media' = media
         /\ ~isLoading'[s]]_vars

\* the read for the page chosen with Discard has failed: the page the
\* operator meant to leave is still open with its edits, Dirty
C28_Witness ==
  \E s \in Sessions :
    /\ error[s] = "Failed to load page: 401"
    /\ currentPage[s].isDirty /\ unsaved[s]
    /\ ~isLoading[s] /\ tasks[s] = EmptyBag
    /\ ~showUnsavedWarning[s] /\ saveOutcome[s] = "none"

(***************************************************************************)
(* Termination of handleSave (checked under FairSpec)                      *)
(***************************************************************************)
\* a handleSave call of the session is past line 139 and before its finally
SaveInFlight(s) == \E t \in InFlight(s) : t.kind = "save"

\* C29: when every request returns, every handleSave call that starts
\* finishes; isSaving is true whenever a call is in flight and false
\* whenever none is.
C29_SaveFinishesAndFlagFollows ==
  /\ [](\A s \in Sessions : SaveInFlight(s) => isSaving[s])
  /\ [](\A s \in Sessions : ~SaveInFlight(s) => ~isSaving[s])
  /\ \A s \in Sessions : SaveInFlight(s) ~> ~SaveInFlight(s)

\* C30: one change event of the banner editor reporting (banner, link,
\* redirect) leaves page content whose Banner, BannerLink and BannerRedirect
\* are the reported values and whose other fields are as they were.
C30_BannerEventSetsAllThree ==
  [][\A banner \in BannerTexts, link \in BannerLinks \cup {Undefined},
       redirect \in {JsValue("boolean", TRUE), JsValue("boolean", FALSE), Undefined} :
       BannerSectionEditorOnChange(banner, link, redirect) =>
         LET before == JSONparse(configPage.content)
             after  == JSONparse(configPage'.content)
         IN  /\ Get(after, "Banner") = banner
             /\ Get(after, "BannerLink") = link
             /\ Get(after, "BannerRedirect") = redirect
             /\ \A k \in (DOMAIN before \cup DOMAIN after) \
                         {"Banner", "BannerLink", "BannerRedirect"} :
                  Get(after, k) = Get(before, k)]_vars

====
